---- MODULE Spec2Model ----
(***************************************************************************)
(* Model of the market-appetite backend.                                   *)
(*                                                                         *)
(*   backend/sentiment_analyzer.py  MarketSentimentAnalyzer: the pipeline  *)
(*       fetch_news -> dedup -> process_articles -> statistics ->          *)
(*       identify_top_assets -> generate_report -> save_report             *)
(*   backend/app.py                 the Flask handlers, the scheduler      *)
(*       thread and the initial analysis of __main__                       *)
(*                                                                         *)
(* Two specifications share the variables:                                 *)
(*   Spec       one pipeline run (generate_report), step by step, on       *)
(*              inputs drawn from bounded sets;                            *)
(*   SpecServe  the threads of app.py running the pipeline and writing     *)
(*              the report file concurrently.                              *)
(*                                                                         *)
(* Units: confidences and sentiment averages are integers in thousandths   *)
(* (0.9 is 900), percentages are integers in hundredths of a percent       *)
(* (33.33 is 3333).                                                        *)
(***************************************************************************)
EXTENDS Integers, Sequences, FiniteSets, TLC

VARIABLES
    \* ---- one pipeline run (sentiment_analyzer.py) ----
    asset_categories,   \* self.asset_categories, set once in __init__
    sentiment_pipeline, \* TRUE: the model is loaded; FALSE: it is None
    ppc,                \* position of the run
    cat,                \* index of the category being analysed
    kw,                 \* index of the next keyword of it to fetch
    fetched,            \* number of articles received so far in this run
    last_fetch,         \* what the latest fetch_news call met
    all_articles,       \* categorize_and_analyze: all_articles
    unique_articles,    \* categorize_and_analyze: list(unique_articles)
    sentiments,         \* categorize_and_analyze: sentiments
    results,            \* categorize_and_analyze: results, in insertion order
    scan,               \* identify_top_assets: articles scanned so far
    asset_stats,        \* identify_top_assets: asset_stats, in insertion order
    top_assets,         \* generate_report: top_assets
    report,             \* generate_report: report
    error,              \* the exception that ended the run, if any
    \* ---- the server (app.py) ----
    pc,                 \* position of every thread
    analysis_lock,      \* holder of analysis_lock, or NoThread
    clock,              \* the wall clock
    runs,               \* number of pipeline runs started
    gen_start,          \* per thread: the clock when its generate_report began
    run_report,         \* per thread: the report its generate_report returned
    save_result,        \* per thread: what save_report returned
    offset,             \* per thread: position of its open file object
    response,           \* per thread: what the run answered or logged
    file_exists,        \* DATA_FILE exists
    file,               \* content of DATA_FILE, as blocks written
    persisted,          \* the complete reports DATA_FILE has held, in order
    last_read           \* what the latest GET /api/sentiment answered

pipeVars == <<asset_categories, sentiment_pipeline, ppc, cat, kw, fetched, last_fetch, all_articles,
              unique_articles, sentiments, results, scan, asset_stats, top_assets,
              report, error>>
serveVars == <<pc, analysis_lock, clock, runs, gen_start, run_report, save_result,
               offset, response, file_exists, file, persisted, last_read>>
vars == <<pipeVars, serveVars>>

-----------------------------------------------------------------------------
(* Bounds of the model *)

\* articles the news API may return in one response, and in one run
MaxFetch == 2
MaxArticles == 3
\* pipeline runs started by the server
MaxRuns == 3

-----------------------------------------------------------------------------
(* Text: a string is a sequence of one-character strings *)

Lower(c) ==
    CASE c = "A" -> "a"
      [] c = "B" -> "b"
      [] c = "C" -> "c"
      [] c = "D" -> "d"
      [] c = "E" -> "e"
      [] c = "F" -> "f"
      [] c = "H" -> "h"
      [] c = "I" -> "i"
      [] c = "L" -> "l"
      [] c = "M" -> "m"
      [] c = "N" -> "n"
      [] c = "O" -> "o"
      [] c = "R" -> "r"
      [] c = "S" -> "s"
      [] c = "T" -> "t"
      [] c = "X" -> "x"
      [] OTHER -> c

\* str.lower()
lower(s) == [i \in 1..Len(s) |-> Lower(s[i])]

\* the `in` operator on two strings
Contains(s, sub) ==
    \E i \in 0..(Len(s) - Len(sub)) : SubSeq(s, i + 1, i + Len(sub)) = sub

\* a JSON null where a string was expected
None == <<"None">>

-----------------------------------------------------------------------------
(* Configuration: self.asset_categories, cut down to two categories. The   *)
(* pipeline runs on three of its keywords; the rankings are also computed  *)
(* on eleven, one more than a ranking holds.                               *)

AI == <<"A", "I">>
AMD == <<"A", "M", "D">>
ADA == <<"A", "D", "A">>
BTC == <<"B", "T", "C">>
ETH == <<"E", "T", "H">>
SOL == <<"S", "O", "L">>
DOT == <<"D", "O", "T">>
XRP == <<"X", "R", "P">>
NFT == <<"N", "F", "T">>
LTC == <<"L", "T", "C">>
XMR == <<"X", "M", "R">>

SmallConfig ==
    << [category |-> "techs", assets |-> <<AMD, AI>>],
       [category |-> "criptos", assets |-> <<ADA>>] >>

WideConfig ==
    << [category |-> "techs", assets |-> <<AMD, AI>>],
       [category |-> "criptos",
        assets |-> <<BTC, ETH, ADA, SOL, DOT, XRP, NFT, LTC, XMR>>] >>

NCat == Len(asset_categories)

\* every keyword of a configuration, in the order
\* `for asset_list in self.asset_categories.values(): for asset in asset_list`
RECURSIVE AssetsFrom(_, _)
AssetsFrom(config, i) ==
    IF i > Len(config) THEN <<>> ELSE config[i].assets \o AssetsFrom(config, i + 1)

AllAssets == AssetsFrom(asset_categories, 1)

-----------------------------------------------------------------------------
(* Inputs: what the news API and the classifier can answer                 *)

\* article['url'] of an article that has no 'url' key, and of one whose url is ''
NoUrlKey == -1
EmptyUrl == 0

\* 'articles': sentiments[:10]
SampleCap == 10

\* one element of data['articles']. content tells apart articles that differ in
\* description; source is "null" when the article's 'source' is a JSON null
Art(u, t, c, src, l, s) ==
    [url |-> u, title |-> t, content |-> c, source |-> src, label |-> l, score |-> s]

\* The articles a response is drawn from. label and score are what
\* self.sentiment_pipeline answers for the article's text ("raise": it raises).
ArticlePool ==
    { Art(1, <<"A", "I", " ", "a", "d", "a">>, 1, "obj", "POSITIVE", 900),
      Art(1, <<"a", "m", "d">>, 2, "obj", "NEGATIVE", 700),
      Art(2, <<"A", "d", "a">>, 3, "obj", "NEUTRAL", 800),
      Art(EmptyUrl, <<"a", "i">>, 4, "obj", "POSITIVE", 800),
      Art(EmptyUrl, <<"A", "M", "D", " ", "a", "i">>, 5, "obj", "NEGATIVE", 900),
      Art(NoUrlKey, <<"a", "i">>, 6, "obj", "POSITIVE", 900),
      Art(2, <<"a", "m", "d", " ", "a", "d", "a">>, 7, "obj", "raise", 0),
      Art(3, None, 8, "obj", "POSITIVE", 900),
      Art(4, <<"A", "i">>, 9, "null", "POSITIVE", 900) }

\* A full page: one article more than the sample keeps, all urls distinct; only
\* the last one names ADA.
BulkBatch ==
    [i \in 1..(SampleCap + 1) |->
        Art(10 + i,
            IF i = SampleCap + 1 THEN <<"A", "D", "A">> ELSE <<"a", "m", "d">>,
            10 + i,
            "obj",
            IF i % 2 = 1 THEN "POSITIVE" ELSE "NEGATIVE",
            IF i % 2 = 1 THEN 900 ELSE 700)]

\* A page of as many articles as the sample keeps, all urls distinct, that
\* names every keyword of WideConfig, the last of the configuration first:
\* the first title names the last two, each other title the one before.
WidePage ==
    LET assets == AssetsFrom(WideConfig, 1)
        n == Len(assets)
    IN [i \in 1..SampleCap |->
           Art(30 + i,
               IF i = 1 THEN assets[n] \o <<" ">> \o assets[n - 1]
               ELSE assets[n - i],
               30 + i,
               "obj",
               IF i % 3 = 1 THEN "POSITIVE"
               ELSE IF i % 3 = 2 THEN "NEGATIVE" ELSE "NEUTRAL",
               IF i % 3 = 1 THEN 900 ELSE 700)]

SeqsUpTo(S, n) == UNION { [1..k -> S] : k \in 0..n }

Min(a, b) == IF a < b THEN a ELSE b

\* requests.exceptions.RequestException: no connection, timeout, and the
\* HTTPError of raise_for_status (rate limit and other error statuses)
RequestFailures == {"network", "timeout", "http_status"}

-----------------------------------------------------------------------------
(* Rounding: round(num / den * scale) to an integer, ties to even           *)

RoundDiv(num, den) ==
    LET n == IF num < 0 THEN -num ELSE num
        q == n \div den
        r == n % den
        up == IF 2 * r > den THEN 1
              ELSE IF 2 * r = den /\ q % 2 = 1 THEN 1 ELSE 0
        m == q + up
    IN IF num < 0 THEN -m ELSE m

-----------------------------------------------------------------------------
(* sentiment_analyzer.py: the pure parts of the pipeline                    *)

\* analyze_sentiment(text): <<>> stands for None, else <<sentiment, confidence>>.
\* text is f"{title} {description}", never empty.
analyze_sentiment(loaded, a) ==
    IF ~loaded THEN <<>>
    ELSE IF a.label = "raise" THEN <<0, 500>>
    ELSE IF a.label = "POSITIVE" THEN <<1, a.score>>
    ELSE IF a.label = "NEGATIVE" THEN <<-1, a.score>>
    ELSE <<0, 500>>

\* process_articles(articles, category). article.get('source', {}).get('name')
\* raises on a null source; the loop's except clause goes on to the next article.
\* The 'source' and 'timestamp' entries of sentiment_data are left out.
RECURSIVE process_articles(_, _)
process_articles(loaded, articles) ==
    IF articles = <<>> THEN <<>>
    ELSE LET a == Head(articles)
             sentiment_result == analyze_sentiment(loaded, a)
             rest == process_articles(loaded, Tail(articles))
         IN IF a.source # "null" /\ sentiment_result # <<>>
            THEN << [title |-> a.title, url |-> a.url, content |-> a.content,
                     sentiment |-> sentiment_result[1],
                     confidence |-> sentiment_result[2]] >> \o rest
            ELSE rest

\* a dict that keeps the first value of a key
RECURSIVE DictPutKeepFirst(_, _)
DictPutKeepFirst(d, a) ==
    IF d = <<>> THEN <<a>>
    ELSE IF Head(d).url = a.url THEN d
    ELSE <<Head(d)>> \o DictPutKeepFirst(Tail(d), a)

\* {a['url']: a for a in all_articles}: a dict keeps the position of the first
\* insertion of a key and the value of the last
RECURSIVE DictPut(_, _)
DictPut(d, a) ==
    IF d = <<>> THEN <<a>>
    ELSE IF Head(d).url = a.url THEN <<a>> \o Tail(d)
    ELSE <<Head(d)>> \o DictPut(Tail(d), a)

RECURSIVE DictOf(_)
DictOf(articles) ==
    IF articles = <<>> THEN <<>>
    ELSE DictPut(DictOf(SubSeq(articles, 1, Len(articles) - 1)),
                 articles[Len(articles)])

\* a['url'] raises KeyError on an article without the key
DedupRaises(articles) == \E i \in 1..Len(articles) : articles[i].url = NoUrlKey

Dedup(articles) == DictOf(articles)

RECURSIVE SumConfidence(_)
SumConfidence(seq) ==
    IF seq = <<>> THEN 0 ELSE Head(seq).confidence + SumConfidence(Tail(seq))

IsPositive(s) == s.sentiment > 0
IsNegative(s) == s.sentiment < 0
\* neutral as "the classifier said neither", leaving the fallback out
IsNeutralNoFallback(s) == s.sentiment = 0 /\ s.confidence # 500
IsNeutral(s) == s.sentiment = 0

\* len(df[df['sentiment'] > 0]), len(df[df['sentiment'] < 0]),
\* len(df[df['sentiment'] == 0])
CountPositive(sents) == Cardinality({i \in 1..Len(sents) : IsPositive(sents[i])})
CountNegative(sents) == Cardinality({i \in 1..Len(sents) : IsNegative(sents[i])})
CountNeutral(sents) == Cardinality({i \in 1..Len(sents) : IsNeutral(sents[i])})

Pct(count, total) == IF total > 0 THEN RoundDiv(count * 10000, total) ELSE 0

\* the statistics of one category, results[category]
CategoryStats(category, sents) ==
    IF sents # <<>>
    THEN LET positive == CountPositive(sents)
             negative == CountNegative(sents)
             neutral == CountNeutral(sents)
             total == Len(sents)
         IN [category |-> category,
             positive_count |-> positive,
             positive_pct |-> Pct(positive, total),
             negative_count |-> negative,
             negative_pct |-> Pct(negative, total),
             neutral_count |-> neutral,
             neutral_pct |-> Pct(neutral, total),
             total_mentions |-> total,
             avg_confidence |-> RoundDiv(SumConfidence(sents), total),
             articles |-> SubSeq(sents, 1, Min(SampleCap, Len(sents)))]
    ELSE [category |-> category,
          positive_count |-> 0, positive_pct |-> 0,
          negative_count |-> 0, negative_pct |-> 0,
          neutral_count |-> 0, neutral_pct |-> 0,
          total_mentions |-> 0, avg_confidence |-> 0,
          articles |-> <<>>]

-----------------------------------------------------------------------------
(* identify_top_assets(all_data)                                            *)

\* asset_stats is a dict in insertion order: a sequence of entries, one per
\* asset, created at the asset's first match
RECURSIVE StatsAdd(_, _, _)
StatsAdd(stats, asset, article) ==
    IF stats = <<>>
    THEN << [asset |-> asset, mentions |-> 1,
             positive |-> IF article.sentiment > 0 THEN 1 ELSE 0,
             negative |-> IF article.sentiment < 0 THEN 1 ELSE 0,
             sentiment_score |-> article.sentiment] >>
    ELSE IF Head(stats).asset = asset
    THEN << [Head(stats) EXCEPT
               !.mentions = @ + 1,
               !.positive = IF article.sentiment > 0 THEN @ + 1 ELSE @,
               !.negative = IF article.sentiment < 0 THEN @ + 1 ELSE @,
               !.sentiment_score = @ + article.sentiment] >> \o Tail(stats)
    ELSE <<Head(stats)>> \o StatsAdd(Tail(stats), asset, article)

\* if asset.lower() in article['title'].lower()
Mentions(asset, article) == Contains(lower(article.title), lower(asset))

\* a scan that gives an article to the first asset it names only
RECURSIVE ScanAssetsFirstMatch(_, _, _)
ScanAssetsFirstMatch(stats, n, article) ==
    IF n = 0 THEN stats
    ELSE LET before == ScanAssetsFirstMatch(stats, n - 1, article)
         IN IF Mentions(AllAssets[n], article)
               /\ \A m \in 1..(n - 1) : ~Mentions(AllAssets[m], article)
            THEN StatsAdd(before, AllAssets[n], article)
            ELSE before

\* the two inner loops, over the first n assets of all categories, for one article
RECURSIVE ScanAssets(_, _, _)
ScanAssets(stats, n, article) ==
    IF n = 0 THEN stats
    ELSE LET before == ScanAssets(stats, n - 1, article)
         IN IF Mentions(AllAssets[n], article)
            THEN StatsAdd(before, AllAssets[n], article)
            ELSE before

\* data.get('articles', []) of every category, in the order of all_data
RECURSIVE SampledArticles(_)
SampledArticles(all_data) ==
    IF all_data = <<>> THEN <<>>
    ELSE Head(all_data).articles \o SampledArticles(Tail(all_data))

RECURSIVE assets_list(_)
assets_list(stats) ==
    IF stats = <<>> THEN <<>>
    ELSE LET st == Head(stats)
         IN (IF st.mentions > 0
             THEN << [asset |-> st.asset, mentions |-> st.mentions,
                      positive |-> st.positive, negative |-> st.negative,
                      sentiment_avg |-> RoundDiv(st.sentiment_score * 1000,
                                                 st.mentions)] >>
             ELSE <<>>) \o assets_list(Tail(stats))

\* key=lambda x: x['mentions'] and key=lambda x: x['sentiment_avg']
KeyOf(x, key) == IF key = "mentions" THEN x.mentions ELSE x.sentiment_avg

\* an insertion that puts x before the elements of equal key
RECURSIVE SortedInsertUnstable(_, _, _, _)
SortedInsertUnstable(sorted, x, key, reverse) ==
    IF sorted = <<>> THEN <<x>>
    ELSE IF (IF reverse THEN KeyOf(Head(sorted), key) > KeyOf(x, key)
                        ELSE KeyOf(Head(sorted), key) < KeyOf(x, key))
    THEN <<Head(sorted)>> \o SortedInsertUnstable(Tail(sorted), x, key, reverse)
    ELSE <<x>> \o sorted

\* sorted(list, key=..., reverse=...): stable, also when reversed
RECURSIVE SortedInsert(_, _, _, _)
SortedInsert(sorted, x, key, reverse) ==
    IF sorted = <<>> THEN <<x>>
    ELSE IF (IF reverse THEN KeyOf(Head(sorted), key) >= KeyOf(x, key)
                        ELSE KeyOf(Head(sorted), key) <= KeyOf(x, key))
    THEN <<Head(sorted)>> \o SortedInsert(Tail(sorted), x, key, reverse)
    ELSE <<x>> \o sorted

RECURSIVE Sorted(_, _, _)
Sorted(list, key, reverse) ==
    IF list = <<>> THEN <<>>
    ELSE SortedInsert(Sorted(SubSeq(list, 1, Len(list) - 1), key, reverse),
                      list[Len(list)], key, reverse)

\* the slice [:10] of the four rankings
TopN == 10

Top(list) == SubSeq(list, 1, Min(TopN, Len(list)))

\* what identify_top_assets returns once the loops have filled asset_stats
Rankings(stats) ==
    LET list == assets_list(stats)
    IN [most_talked |-> Top(Sorted(list, "mentions", TRUE)),
        least_talked |-> Top(Sorted(list, "mentions", FALSE)),
        most_positive |-> Top(Sorted(list, "sentiment_avg", TRUE)),
        most_negative |-> Top(Sorted(list, "sentiment_avg", FALSE))]

\* the dict generate_report compiles; the timestamp is added by the caller's clock
RECURSIVE market_sentiment(_)
market_sentiment(category_results) ==
    IF category_results = <<>> THEN <<>>
    ELSE LET data == Head(category_results)
         IN << [category |-> data.category,
                positive |-> data.positive_pct,
                negative |-> data.negative_pct,
                neutral |-> data.neutral_pct,
                total_mentions |-> data.total_mentions,
                avg_confidence |-> data.avg_confidence,
                articles_count |-> data.positive_count + data.negative_count
                                   + data.neutral_count] >>
            \o market_sentiment(Tail(category_results))

BuildReport(category_results, top) ==
    [market_sentiment |-> market_sentiment(category_results),
     top_assets |-> top,
     detailed_category_data |-> category_results]

NoReport == [market_sentiment |-> <<>>, top_assets |-> <<>>,
             detailed_category_data |-> <<>>]
NoError == [type |-> "none", at |-> "none"]

-----------------------------------------------------------------------------
(* The server's variables while no server runs, and the pipeline's while    *)
(* only the server is modelled                                              *)

Threads == {"main", "sched", "req1", "req2"}
NoThread == "none"
NoRun == [run |-> 0, timestamp |-> 0]

ServeInit ==
    /\ pc = [t \in Threads |-> IF t = "main" THEN "start" ELSE "idle"]
    /\ analysis_lock = NoThread
    /\ clock = 0
    /\ runs = 0
    /\ gen_start = [t \in Threads |-> 0]
    /\ run_report = [t \in Threads |-> NoRun]
    /\ save_result = [t \in Threads |-> "none"]
    /\ offset = [t \in Threads |-> 0]
    /\ response = [t \in Threads |-> "none"]
    /\ file_exists = FALSE
    /\ file = <<>>
    /\ persisted = <<>>
    /\ last_read = "none"

PipeInit ==
    /\ asset_categories = SmallConfig
    /\ ppc = "fetch"
    /\ cat = 1
    /\ kw = 1
    /\ fetched = 0
    /\ last_fetch = "none"
    /\ all_articles = <<>>
    /\ unique_articles = <<>>
    /\ sentiments = <<>>
    /\ results = <<>>
    /\ scan = 0
    /\ asset_stats = <<>>
    /\ top_assets = <<>>
    /\ report = NoReport
    /\ error = NoError

-----------------------------------------------------------------------------
(* One run of generate_report, step by step                                 *)

\* _initialize_sentiment_model either loads the model or leaves it None
Init ==
    /\ sentiment_pipeline \in BOOLEAN
    /\ PipeInit
    /\ ServeInit

Raise(type, at) ==
    /\ ppc' = "raised"
    /\ error' = [type |-> type, at |-> at]

\* the end of one iteration of `for asset in assets`
Fetched(outcome, articles) ==
    /\ last_fetch' = outcome
    /\ all_articles' = all_articles \o articles
    /\ kw' = kw + 1
    /\ ppc' = IF kw = Len(asset_categories[cat].assets) THEN "dedup" ELSE "fetch"
    /\ UNCHANGED <<asset_categories, sentiment_pipeline, cat, unique_articles, sentiments, results,
                   scan, asset_stats, top_assets, report, error>>

\* fetch_news: the API answers a list of articles
FetchNewsOk ==
    /\ ppc = "fetch"
    /\ \E batch \in SeqsUpTo(ArticlePool, Min(MaxFetch, MaxArticles - fetched)) :
          /\ fetched' = fetched + Len(batch)
          /\ Fetched("ok", batch)
    /\ UNCHANGED serveVars

\* fetch_news: the API answers a full page
FetchNewsPage ==
    /\ ppc = "fetch"
    /\ fetched' = fetched
    /\ Fetched("ok", BulkBatch)
    /\ UNCHANGED serveVars

\* fetch_news: requests raises a RequestException, caught: return []
FetchNewsRequestException ==
    /\ ppc = "fetch"
    /\ \E failure \in RequestFailures :
          /\ fetched' = fetched
          /\ Fetched(failure, <<>>)
    /\ UNCHANGED serveVars

\* fetch_news: the body is no JSON. response.json() raises: a RequestException
\* since requests 2.27 (caught, return []), a plain ValueError before (not caught)
FetchNewsInvalidJson ==
    /\ ppc = "fetch"
    /\ \/ /\ fetched' = fetched
          /\ Fetched("invalid_json", <<>>)
       \/ /\ Raise("ValueError", "fetch_news")
          /\ last_fetch' = "invalid_json"
          /\ UNCHANGED <<asset_categories, sentiment_pipeline, cat, kw, fetched, all_articles,
                         unique_articles, sentiments, results, scan, asset_stats,
                         top_assets, report>>
    /\ UNCHANGED serveVars

\* fetch_news: the body is JSON with "articles": null. len(articles) raises
\* TypeError, which the except clause does not catch
FetchNewsMalformed ==
    /\ ppc = "fetch"
    /\ Raise("TypeError", "fetch_news")
    /\ last_fetch' = "articles_null"
    /\ UNCHANGED <<asset_categories, sentiment_pipeline, cat, kw, fetched, all_articles,
                   unique_articles, sentiments, results, scan, asset_stats,
                         top_assets, report>>
    /\ UNCHANGED serveVars

\* unique_articles = {a['url']: a for a in all_articles}.values()
RemoveDuplicates ==
    /\ ppc = "dedup"
    /\ IF DedupRaises(all_articles)
       THEN /\ Raise("KeyError", "categorize_and_analyze")
            /\ UNCHANGED unique_articles
       ELSE /\ unique_articles' = Dedup(all_articles)
            /\ ppc' = "process"
            /\ UNCHANGED error
    /\ UNCHANGED <<asset_categories, sentiment_pipeline, cat, kw, fetched, last_fetch, all_articles,
                   sentiments, results, scan, asset_stats, top_assets, report>>
    /\ UNCHANGED serveVars

\* sentiments = self.process_articles(list(unique_articles), category)
ProcessArticles ==
    /\ ppc = "process"
    /\ sentiments' = process_articles(sentiment_pipeline, unique_articles)
    /\ ppc' = "stats"
    /\ UNCHANGED <<asset_categories, sentiment_pipeline, cat, kw, fetched, last_fetch, all_articles,
                   unique_articles, results, scan, asset_stats, top_assets, report,
                   error>>
    /\ UNCHANGED serveVars

\* results[category] = {...}, and on to the next category
Statistics ==
    /\ ppc = "stats"
    /\ results' = Append(results,
                         CategoryStats(asset_categories[cat].category, sentiments))
    /\ IF cat < NCat
       THEN /\ cat' = cat + 1
            /\ kw' = 1
            /\ all_articles' = <<>>
            /\ ppc' = "fetch"
       ELSE /\ ppc' = "rank"
            /\ UNCHANGED <<cat, kw, all_articles>>
    /\ UNCHANGED <<asset_categories, sentiment_pipeline, fetched, last_fetch, unique_articles,
                   sentiments, scan, asset_stats, top_assets, report, error>>
    /\ UNCHANGED serveVars

\* identify_top_assets: one iteration of `for article in ...`, over the
\* articles of every category in turn; article['title'].lower() raises
\* AttributeError on a null title
ScanArticle ==
    /\ ppc = "rank"
    /\ scan < Len(SampledArticles(results))
    /\ LET article == SampledArticles(results)[scan + 1]
       IN IF article.title = None
          THEN /\ Raise("AttributeError", "identify_top_assets")
               /\ UNCHANGED <<scan, asset_stats>>
          ELSE /\ asset_stats' = ScanAssets(asset_stats, Len(AllAssets), article)
               /\ scan' = scan + 1
               /\ UNCHANGED <<ppc, error>>
    /\ UNCHANGED <<asset_categories, sentiment_pipeline, cat, kw, fetched, last_fetch, all_articles,
                   unique_articles, sentiments, results, top_assets, report>>
    /\ UNCHANGED serveVars

\* identify_top_assets: the loops are over; build and return the four rankings
RankAssets ==
    /\ ppc = "rank"
    /\ scan = Len(SampledArticles(results))
    /\ top_assets' = Rankings(asset_stats)
    /\ ppc' = "build"
    /\ UNCHANGED <<asset_categories, sentiment_pipeline, cat, kw, fetched, last_fetch, all_articles,
                   unique_articles, sentiments, results, scan, asset_stats, report,
                   error>>
    /\ UNCHANGED serveVars

\* report = {...}; return report
GenerateReport ==
    /\ ppc = "build"
    /\ report' = BuildReport(results, top_assets)
    /\ ppc' = "done"
    /\ UNCHANGED <<asset_categories, sentiment_pipeline, cat, kw, fetched, last_fetch, all_articles,
                   unique_articles, sentiments, results, scan, asset_stats,
                   top_assets, error>>
    /\ UNCHANGED serveVars

Next ==
    \/ FetchNewsOk
    \/ FetchNewsPage
    \/ FetchNewsRequestException
    \/ FetchNewsInvalidJson
    \/ FetchNewsMalformed
    \/ RemoveDuplicates
    \/ ProcessArticles
    \/ Statistics
    \/ ScanArticle
    \/ RankAssets
    \/ GenerateReport

Spec == Init /\ [][Next]_vars

-----------------------------------------------------------------------------
(* identify_top_assets(all_data) on its own: all_data is drawn from what    *)
(* categorize_and_analyze returns under WideConfig, then the scan and the   *)
(* rankings run as in a pipeline run.                                       *)

MaxRankFetch == 1

\* the articles fetched for one category: some single articles, then
\* possibly a whole page; every article carries a 'url' key
RankFetches ==
    {batch \o page :
        batch \in {b \in SeqsUpTo(ArticlePool, MaxRankFetch) : ~DedupRaises(b)},
        page \in {<<>>, WidePage}}

\* categorize_and_analyze(category, assets) for the articles fetched
RankData(category, articles) ==
    CategoryStats(category, process_articles(TRUE, Dedup(articles)))

InitRank ==
    /\ asset_categories = WideConfig
    /\ sentiment_pipeline = TRUE
    /\ \E a1, a2 \in RankFetches :
          /\ all_articles = a2
          /\ unique_articles = Dedup(a2)
          /\ sentiments = process_articles(TRUE, Dedup(a2))
          /\ results = << RankData(WideConfig[1].category, a1),
                          RankData(WideConfig[2].category, a2) >>
    /\ ppc = "rank"
    /\ cat = Len(WideConfig)
    /\ kw = Len(WideConfig[Len(WideConfig)].assets) + 1
    /\ fetched = 0
    /\ last_fetch = "none"
    /\ scan = 0
    /\ asset_stats = <<>>
    /\ top_assets = <<>>
    /\ report = NoReport
    /\ error = NoError
    /\ ServeInit

NextRank ==
    \/ ScanArticle
    \/ RankAssets
    \/ GenerateReport

SpecRank == InitRank /\ [][NextRank]_vars

-----------------------------------------------------------------------------
(* app.py: the threads that run the pipeline and the report file            *)

\* request threads of the Flask server (threaded), each serving POST /api/analyze
Requests == {"req1", "req2"}

\* json.dump reaches the file in this many buffered writes
NBlocks == 2

Hole == [run |-> 0, part |-> 0, timestamp |-> 0]

Block(rep, k) == [run |-> rep.run, part |-> k, timestamp |-> rep.timestamp]

\* a write of one block at position pos of a file; a position past the end
\* leaves a hole before it
WriteAt(f, pos, blk) ==
    [i \in 1..(IF pos > Len(f) THEN pos ELSE Len(f)) |->
        IF i = pos THEN blk ELSE IF i <= Len(f) THEN f[i] ELSE Hole]

\* the file holds one whole report: json.load succeeds on it
Complete(f) ==
    /\ Len(f) = NBlocks
    /\ \A k \in 1..NBlocks : f[k].part = k /\ f[k].run = f[1].run /\ f[k].run # 0

InRun(t) == pc[t] \in {"generating", "open", "write"}

\* a thread enters generate_report
Begin(t) ==
    /\ runs < MaxRuns
    /\ runs' = runs + 1
    /\ pc' = [pc EXCEPT ![t] = "generating"]
    /\ gen_start' = [gen_start EXCEPT ![t] = clock]
    /\ run_report' = [run_report EXCEPT ![t] = [run |-> runs + 1, timestamp |-> 0]]
    /\ save_result' = [save_result EXCEPT ![t] = "none"]
    /\ response' = [response EXCEPT ![t] = "none"]
    /\ UNCHANGED <<clock, offset, file_exists, file, persisted, last_read>>

\* __main__: the initial analysis, before the scheduler and the server start
InitialAnalysis ==
    /\ pc["main"] = "start"
    /\ Begin("main")
    /\ UNCHANGED analysis_lock
    /\ UNCHANGED pipeVars

\* scheduled_analysis: with analysis_lock:
ScheduledAnalysis ==
    /\ pc["main"] = "serving"
    /\ pc["sched"] = "idle"
    /\ analysis_lock = NoThread
    /\ analysis_lock' = "sched"
    /\ Begin("sched")
    /\ UNCHANGED pipeVars

\* trigger_analysis: the handler calls generate_report at once
TriggerAnalysis(t) ==
    /\ pc["main"] = "serving"
    /\ pc[t] = "idle"
    /\ Begin(t)
    /\ UNCHANGED analysis_lock
    /\ UNCHANGED pipeVars

\* generate_report returns: fetching and classifying took time, and the
\* timestamp is read when the report is compiled
GenerateReturns(t) ==
    /\ pc[t] = "generating"
    /\ clock' = clock + 1
    /\ run_report' = [run_report EXCEPT ![t].timestamp = clock + 1]
    /\ pc' = [pc EXCEPT ![t] = "open"]
    /\ UNCHANGED <<analysis_lock, runs, gen_start, save_result, offset, response,
                   file_exists, file, persisted, last_read>>
    /\ UNCHANGED pipeVars

\* generate_report raises (see Raise): the caller's except clause answers
GenerateRaises(t) ==
    /\ pc[t] = "generating"
    /\ clock' = clock + 1
    /\ response' = [response EXCEPT ![t] = "error"]
    /\ pc' = [pc EXCEPT ![t] = "respond"]
    /\ UNCHANGED <<analysis_lock, runs, gen_start, run_report, save_result, offset,
                   file_exists, file, persisted, last_read>>
    /\ UNCHANGED pipeVars

\* save_report: open(filename, 'w') creates or truncates the file
SaveOpens(t) ==
    /\ pc[t] = "open"
    /\ file_exists' = TRUE
    /\ file' = <<>>
    /\ offset' = [offset EXCEPT ![t] = 0]
    /\ pc' = [pc EXCEPT ![t] = "write"]
    /\ UNCHANGED <<analysis_lock, clock, runs, gen_start, run_report, save_result,
                   response, persisted, last_read>>
    /\ UNCHANGED pipeVars

\* save_report: open raises; the except clause prints and returns None
SaveOpenFails(t) ==
    /\ pc[t] = "open"
    /\ save_result' = [save_result EXCEPT ![t] = "None"]
    /\ pc' = [pc EXCEPT ![t] = "respond"]
    /\ UNCHANGED <<analysis_lock, clock, runs, gen_start, run_report, offset,
                   response, file_exists, file, persisted, last_read>>
    /\ UNCHANGED pipeVars

\* save_report: json.dump writes the next block; after the last one the file
\* is closed and filename is returned
SaveWrites(t) ==
    /\ pc[t] = "write"
    /\ LET k == offset[t] + 1
           f == WriteAt(file, k, Block(run_report[t], k))
       IN /\ file' = f
          /\ offset' = [offset EXCEPT ![t] = k]
          /\ IF k = NBlocks
             THEN /\ save_result' = [save_result EXCEPT ![t] = "filename"]
                  /\ pc' = [pc EXCEPT ![t] = "respond"]
                  /\ persisted' =
                        IF Complete(f)
                        THEN Append(persisted,
                                    [run |-> f[1].run, timestamp |-> f[1].timestamp,
                                     started |-> gen_start[t]])
                        ELSE persisted
             ELSE UNCHANGED <<save_result, pc, persisted>>
    /\ UNCHANGED <<analysis_lock, clock, runs, gen_start, run_report, response,
                   file_exists, last_read>>
    /\ UNCHANGED pipeVars

\* save_report: a write raises (disk full, unserialisable value); the except
\* clause prints and returns None
SaveWriteFails(t) ==
    /\ pc[t] = "write"
    /\ save_result' = [save_result EXCEPT ![t] = "None"]
    /\ pc' = [pc EXCEPT ![t] = "respond"]
    /\ UNCHANGED <<analysis_lock, clock, runs, gen_start, run_report, offset,
                   response, file_exists, file, persisted, last_read>>
    /\ UNCHANGED pipeVars

\* what follows save_report in each caller; nobody looks at what it returned
Respond(t) ==
    /\ pc[t] = "respond"
    /\ response' = [response EXCEPT ![t] = IF @ = "error" THEN @ ELSE "success"]
    /\ pc' = [pc EXCEPT ![t] = IF t = "main" THEN "serving" ELSE "idle"]
    /\ analysis_lock' = IF t = "sched" THEN NoThread ELSE analysis_lock
    /\ UNCHANGED <<clock, runs, gen_start, run_report, save_result, offset,
                   file_exists, file, persisted, last_read>>
    /\ UNCHANGED pipeVars

\* get_sentiment: GET /api/sentiment
GetSentiment ==
    /\ pc["main"] = "serving"
    /\ last_read' =
          IF ~file_exists THEN "404"
          ELSE IF Complete(file) THEN "200"
          ELSE "500"
    /\ UNCHANGED <<pc, analysis_lock, clock, runs, gen_start, run_report,
                   save_result, offset, response, file_exists, file, persisted>>
    /\ UNCHANGED pipeVars

NextServe ==
    \/ InitialAnalysis
    \/ ScheduledAnalysis
    \/ \E t \in Requests : TriggerAnalysis(t)
    \/ \E t \in Threads : GenerateReturns(t)
    \/ \E t \in Threads : GenerateRaises(t)
    \/ \E t \in Threads : SaveOpens(t)
    \/ \E t \in Threads : SaveOpenFails(t)
    \/ \E t \in Threads : SaveWrites(t)
    \/ \E t \in Threads : SaveWriteFails(t)
    \/ \E t \in Threads : Respond(t)
    \/ GetSentiment

InitServe ==
    /\ sentiment_pipeline = TRUE
    /\ PipeInit
    /\ ServeInit

SpecServe == InitServe /\ [][NextServe]_vars

-----------------------------------------------------------------------------
(* Properties of the server (checked under SpecServe)                       *)

\* C1: at most one pipeline run is between the start of generate_report and
\* the end of save_report at any time; in particular no manual trigger runs
\* the pipeline while a scheduled run holds analysis_lock.
C1_AtMostOneRun ==
    /\ \A t1, t2 \in Threads : InRun(t1) /\ InRun(t2) => t1 = t2
    /\ \A t \in Requests : analysis_lock = "sched" => ~InRun(t)

\* C2: in every state the stored report is absent or one complete report of
\* one run (a save that fails leaves the previous report in place).
C2_StoredReportAbsentOrComplete ==
    file_exists => Complete(file)

\* C3: a run whose report was not persisted is never reported as a success:
\* a caller that answers (or logs) success has had save_report return the
\* file name.
C3_SaveFailureSurfaced ==
    \A t \in Threads : response[t] = "success" => save_result[t] = "filename"

\* C6: the timestamps of the reports the store has held strictly increase in
\* the order they were stored, and each is the clock at the start of the
\* generation of its run.
C6_TimestampStrictlyIncreasing ==
    /\ \A i, j \in 1..Len(persisted) :
          i < j => persisted[i].timestamp < persisted[j].timestamp
    /\ \A i \in 1..Len(persisted) : persisted[i].timestamp = persisted[i].started

-----------------------------------------------------------------------------
(* Properties of one pipeline run (checked under Spec)                      *)

\* the batch of the current category has been deduplicated
Deduplicated == ppc \in {"process", "stats"}

NonEmptyUrl(a) == a.url # EmptyUrl /\ a.url # NoUrlKey
HasEmptyUrl(a) == a.url = EmptyUrl

\* the classifier is unavailable for, or raises on, this article
Unclassifiable(a) == ~sentiment_pipeline \/ a.label = "raise"

\* C4: an article for which the classifier is unavailable or raises is
\* skipped: it is not in the classified list of its category.
C4_UnclassifiableSkipped ==
    ppc = "stats" =>
        \A i \in 1..Len(unique_articles) :
            Unclassifiable(unique_articles[i]) =>
                \A j \in 1..Len(sentiments) :
                    sentiments[j].content # unique_articles[i].content

\* C5: for every category, positive + negative + neutral counts equal
\* total_mentions, which equals the number of articles classified for the
\* category and, in the report, articles_count; with no mentions every count,
\* percentage and the average confidence is 0.
C5_CountsSumToTotal ==
    /\ \A i \in 1..Len(results) :
          LET r == results[i]
          IN /\ r.positive_count + r.negative_count + r.neutral_count
                   = r.total_mentions
             /\ r.total_mentions = 0 =>
                   /\ r.positive_count = 0 /\ r.negative_count = 0
                   /\ r.neutral_count = 0
                   /\ r.positive_pct = 0 /\ r.negative_pct = 0 /\ r.neutral_pct = 0
                   /\ r.avg_confidence = 0
    /\ (results # <<>> /\ ppc # "stats") =>
          results[Len(results)].total_mentions = Len(sentiments)
    /\ ppc = "done" =>
          /\ Len(report.market_sentiment) = NCat
          /\ \A i \in 1..NCat :
                /\ report.market_sentiment[i].articles_count
                      = results[i].total_mentions
                /\ report.market_sentiment[i].total_mentions
                      = results[i].total_mentions

\* a report with an empty category, and a category with articles of all
\* three polarities
C5_Witness ==
    /\ ppc = "done"
    /\ \E i \in 1..NCat : results[i].total_mentions = 0
    /\ \E i \in 1..NCat :
          /\ results[i].positive_count > 0
          /\ results[i].negative_count > 0
          /\ results[i].neutral_count > 0

\* C7: a fetch that fails (network, timeout, error status, malformed body)
\* does not end the run: no exception leaves fetch_news.
C7_FetchFailureNotFatal ==
    ~(ppc = "raised" /\ error.at = "fetch_news")

\* indices of the batch carrying url u
WithUrl(articles, u) == {i \in 1..Len(articles) : articles[i].url = u}

Max(S) == CHOOSE x \in S : \A y \in S : y <= x

\* C8: after deduplication every non-empty url of the batch has exactly one
\* article in the output, the last of the batch with that url, so the output
\* has as many articles with a non-empty url as the batch has distinct ones.
C8_LastSeenWins ==
    Deduplicated =>
        /\ \A i \in 1..Len(all_articles) :
              NonEmptyUrl(all_articles[i]) =>
                 LET u == all_articles[i].url
                 IN /\ Cardinality(WithUrl(unique_articles, u)) = 1
                    /\ \A j \in WithUrl(unique_articles, u) :
                          unique_articles[j] = all_articles[Max(WithUrl(all_articles, u))]
        /\ Cardinality({j \in 1..Len(unique_articles) : NonEmptyUrl(unique_articles[j])})
              = Cardinality({all_articles[i].url : i \in
                               {k \in 1..Len(all_articles) : NonEmptyUrl(all_articles[k])}})

\* a batch with two different articles of one non-empty url has been deduplicated
C8_Witness ==
    /\ Deduplicated
    /\ \E i, j \in 1..Len(all_articles) :
          /\ i < j
          /\ NonEmptyUrl(all_articles[i])
          /\ all_articles[i].url = all_articles[j].url
          /\ all_articles[i] # all_articles[j]

\* C9: articles with an empty or missing url are never deduplicated: all of
\* them are in the output, and they do not end the run.
C9_EmptyUrlRetained ==
    /\ Deduplicated =>
          Cardinality({j \in 1..Len(unique_articles) : HasEmptyUrl(unique_articles[j])})
             = Cardinality({i \in 1..Len(all_articles) : HasEmptyUrl(all_articles[i])})
    /\ ~(ppc = "raised" /\ error.type = "KeyError")

\* the letters a and b are equal up to case
SameLetter(a, b) == a = b \/ Lower(a) = b \/ a = Lower(b)

\* k occurs in title, compared letter by letter without regard to case
OccursIn(k, title) ==
    \E off \in 0..(Len(title) - Len(k)) :
        \A j \in 1..Len(k) : SameLetter(title[off + j], k[j])

\* the first n of the sampled articles whose title names k
Matching(sampled, k, n) == {i \in 1..n : OccursIn(k, sampled[i].title)}

RECURSIVE PolaritySum(_, _, _)
PolaritySum(sampled, k, n) ==
    IF n = 0 THEN 0
    ELSE PolaritySum(sampled, k, n - 1)
         + (IF OccursIn(k, sampled[n].title) THEN sampled[n].sentiment ELSE 0)

\* asset_stats[k], which reads as zeros before the first match of k
StatsOf(k) ==
    LET S == {i \in 1..Len(asset_stats) : asset_stats[i].asset = k}
    IN IF S = {}
       THEN [asset |-> k, mentions |-> 0, positive |-> 0, negative |-> 0,
             sentiment_score |-> 0]
       ELSE asset_stats[CHOOSE i \in S : TRUE]

\* C10: for every tracked keyword, mentions is the number of sampled articles
\* (at most 10 of each category) whose title contains it, case-insensitively;
\* positive and negative count those of polarity > 0 and < 0, and the
\* sentiment sum adds their polarities. Every keyword a title names counts.
C10_ManyToManyAttribution ==
    ppc \in {"rank", "build", "done"} =>
        LET sampled == SampledArticles(results)
        IN \A n \in 1..Len(AllAssets) :
              LET k == AllAssets[n]
                  st == StatsOf(k)
                  matching == Matching(sampled, k, scan)
              IN /\ Cardinality({i \in 1..Len(asset_stats) :
                                    asset_stats[i].asset = k}) <= 1
                 /\ st.mentions = Cardinality(matching)
                 /\ st.positive
                       = Cardinality({i \in matching : sampled[i].sentiment > 0})
                 /\ st.negative
                       = Cardinality({i \in matching : sampled[i].sentiment < 0})
                 /\ st.sentiment_score = PolaritySum(sampled, k, scan)

\* a finished scan in which one title counted for two keywords, and an
\* article naming ADA was classified but lies beyond the sample of its
\* category, so it was not counted
C10_Witness ==
    /\ ppc = "done"
    /\ scan = Len(SampledArticles(results))
    /\ \E i \in 1..scan :
          /\ OccursIn(AI, SampledArticles(results)[i].title)
          /\ OccursIn(ADA, SampledArticles(results)[i].title)
    /\ Len(sentiments) > SampleCap
    /\ OccursIn(ADA, sentiments[SampleCap + 1].title)
    /\ StatsOf(ADA).mentions = 1
    /\ StatsOf(AI).mentions >= 1

-----------------------------------------------------------------------------
(* The four rankings                                                        *)

\* position of keyword k in the configuration, categories then keywords
CfgIndex(k) == CHOOSE n \in 1..Len(AllAssets) : AllAssets[n] = k

MinOf(S) == CHOOSE x \in S : \A y \in S : x <= y

\* the keywords some sampled article names
Eligible(sampled) ==
    {AllAssets[n] : n \in {m \in 1..Len(AllAssets) :
                              Matching(sampled, AllAssets[m], scan) # {}}}

\* for each keyword, by its place in the configuration: how many sampled
\* articles name it, the rounded mean of their polarities, and the place of
\* the first of them (0 when none does)
Census(sampled) ==
    [n \in 1..Len(AllAssets) |->
        LET m == Matching(sampled, AllAssets[n], scan)
        IN [mentions |-> Cardinality(m),
            sentiment_avg |->
                IF m = {} THEN 0
                ELSE RoundDiv(PolaritySum(sampled, AllAssets[n], scan) * 1000,
                              Cardinality(m)),
            first |-> IF m = {} THEN 0 ELSE MinOf(m)]]

\* n1 comes before n2 among equal keys: by position in the configuration
\* ("config"), or by which was named first in the scan of the sampled
\* articles, keywords of one article in configuration order ("first_match")
TieBefore(census, n1, n2, tie) ==
    IF tie = "config" THEN n1 < n2
    ELSE \/ census[n1].first < census[n2].first
         \/ (census[n1].first = census[n2].first /\ n1 < n2)

Before(census, n1, n2, key, reverse, tie) ==
    LET v1 == census[n1][key]
        v2 == census[n2][key]
    IN IF v1 # v2 THEN (IF reverse THEN v1 > v2 ELSE v1 < v2)
       ELSE TieBefore(census, n1, n2, tie)

\* list is the first TopN of the named keywords in the order of Before
IsRanking(census, list, key, reverse, tie) ==
    LET named == {n \in DOMAIN census : census[n].mentions > 0}
        listed == {CfgIndex(list[i].asset) : i \in 1..Len(list)}
    IN /\ Len(list) = Min(TopN, Cardinality(named))
       /\ \A i \in 1..Len(list) :
             /\ \E n \in named : AllAssets[n] = list[i].asset
             /\ list[i].mentions = census[CfgIndex(list[i].asset)].mentions
             /\ list[i].sentiment_avg
                   = census[CfgIndex(list[i].asset)].sentiment_avg
       /\ \A i, j \in 1..Len(list) :
             i < j => Before(census, CfgIndex(list[i].asset),
                             CfgIndex(list[j].asset), key, reverse, tie)
       /\ \A n \in named \ listed :
             \A i \in 1..Len(list) :
                 Before(census, CfgIndex(list[i].asset), n, key, reverse, tie)

AllRankings(tie) ==
    LET census == Census(SampledArticles(results))
    IN /\ IsRanking(census, top_assets.most_talked, "mentions", TRUE, tie)
       /\ IsRanking(census, top_assets.least_talked, "mentions", FALSE, tie)
       /\ IsRanking(census, top_assets.most_positive, "sentiment_avg", TRUE, tie)
       /\ IsRanking(census, top_assets.most_negative, "sentiment_avg", FALSE, tie)

\* C11 (as claimed): each ranking is the first 10 at most of the keywords with
\* mentions > 0 sorted by its key, keywords of equal key in the order of the
\* category configuration.
C11_TiesInConfigurationOrder ==
    ppc \in {"build", "done"} => AllRankings("config")

\* C11 (amended): each ranking is the first 10 at most of the keywords with
\* mentions > 0 sorted by its key, keywords of equal key in the order in
\* which they were first named while the sampled articles were scanned.
C11_TiesInFirstMatchOrder ==
    ppc \in {"build", "done"} => AllRankings("first_match")

\* rankings returned when more keywords were named than a ranking holds, in
\* which two keywords of equal mentions stand in the reverse of their
\* configuration order
C11_Witness ==
    /\ ppc = "done"
    /\ Cardinality(Eligible(SampledArticles(results))) > TopN
    /\ Len(top_assets.most_talked) = TopN
    /\ \E i, j \in 1..Len(top_assets.most_talked) :
          /\ i < j
          /\ top_assets.most_talked[i].mentions = top_assets.most_talked[j].mentions
          /\ CfgIndex(top_assets.most_talked[i].asset)
                > CfgIndex(top_assets.most_talked[j].asset)

====
